---- MODULE Spec2Model ----
(***************************************************************************)
(* The moving-box tracker of src/__archive: the boxes, box_history and     *)
(* categories tables and the domain operations over them, in the two       *)
(* application variants of the repository:                                  *)
(*   "hard"  simplified_app.py        delete_box removes the row           *)
(*   "soft"  simplified_app_fixed.py  delete_box sets is_deleted           *)
(* A request runs on its own connection (get_db keeps one per application  *)
(* context); every SQL statement of an operation that another connection   *)
(* can interleave with is a step of its own, and the statements of one     *)
(* transaction become visible together at its commit.                      *)
(***************************************************************************)
EXTENDS Integers, Sequences, FiniteSets, TLC

(***************************************************************************)
(* Bounds of the model.                                                    *)
(***************************************************************************)
MaxBoxId == 2
MaxCatId == 3
MaxHistory == 4
MaxBoxNumber == 3
MaxRequests == 4
MaxConcRequests == 3
NumProcs == 2
MaxListBoxes == 21

Procs == 1..NumProcs

Variants == {"hard", "soft"}
Priorities == {"Priority 1", "Priority 2"}
Sizes == {"Medium", "Large"}
Descriptions == {"Test box", "Updated test box"}
\* editor: the forms pass 'user', DELETE /api/boxes/<id> passes ?editor=
FormEditor == "user"
Editors == {"user", "test_user"}
CategoryNames == {"Kitchen", "kitchen"}
\* new_name as edit_category receives it, before strip()
RawNames == {"", "  ", " Kitchen ", "kitchen"}
\* the server's local time minus UTC, in the time unit of the log
TZOffsets == {-2, 0, 1}

\* box_number=None, the default of create_box
NoNumber == 0

VARIABLES
    variant,      \* which application file runs
    boxes,        \* table boxes: id -> row
    box_history,  \* table box_history, in insertion (id) order
    categories,   \* table categories: id -> row
    nextBoxId,    \* AUTOINCREMENT of boxes.id
    nextCatId,    \* AUTOINCREMENT of categories.id
    pc,           \* per request slot: the statement it is about to run
    req,          \* per request slot: arguments and locals of the running call
    last,         \* the call that returned most recently and what it returned
    nreq,         \* requests started so far
    backup_impl,  \* "module": backup.py; "app": the backup functions of the application file
    backup_dir,   \* the backup directory: the files, each with name and modification time
    now,          \* the clock, in seconds
    db_file,      \* the database file: whether it exists, its modification time
    config,       \* backup_config.json
    backup_last,  \* the backup call that returned most recently and what it did
    nbackup,      \* backup calls so far
    properties,   \* src/app.py: table properties of rental_properties.db
    rental_last   \* src/app.py: the start or request that ran most recently

backup == <<backup_impl, backup_dir, now, db_file, config, backup_last, nbackup>>
rental == <<properties, rental_last>>
vars == <<variant, boxes, box_history, categories, nextBoxId, nextCatId, pc, req, last, nreq,
          backup, rental>>
db == <<boxes, box_history, categories, nextBoxId, nextCatId>>

NoBox == [found |-> FALSE, box_number |-> 0, priority |-> "", category_id |-> 0,
          category_name |-> "", box_size |-> "", description |-> ""]

NoReq == [op |-> "none", box_id |-> 0, box_number |-> 0, cat_id |-> 0, cat_name |-> "",
          created |-> 0, box |-> NoBox, form |-> FALSE, submitted |-> 0]

NoCall == [op |-> "none", status |-> "none", box_id |-> 0, created |-> 0,
           priority |-> "", box_size |-> "", description |-> "", editor |-> "",
           cat_id |-> 0, name |-> "", box_number |-> 0, result |-> <<>>]

\* "last_backup_check": None
None == -1

NoBackupCall == [op |-> "none", status |-> "none", triggered |-> FALSE, copied |-> FALSE,
                 name |-> [prefix |-> "", stamp |-> 0], deleted |-> {}]

\* no backup function runs: an empty backup directory, a configuration file
\* with backups switched off
BackupIdle ==
    /\ backup_impl = "module"
    /\ backup_dir = {}
    /\ now = 0
    /\ db_file = [exists |-> TRUE, mtime |-> 0]
    /\ config = [exists |-> TRUE, last_backup |-> None, interval |-> 0,
                 auto_backup |-> FALSE, max_backups |-> 0]
    /\ backup_last = NoBackupCall
    /\ nbackup = 0

\* a column that holds NULL
NULL == "NULL"

\* no table properties: rental_properties.db before the application first starts
NoTable == [exists |-> FALSE, columns |-> {}, rows |-> <<>>]

\* the rental application does not run
RentalIdle ==
    /\ properties = NoTable
    /\ rental_last = [op |-> "", status |-> ""]

(***************************************************************************)
(* Schema and queries.                                                     *)
(***************************************************************************)

\* the column declared without UNIQUE
BoxNumberNotUnique(bx, n) == FALSE

\* box_number INTEGER UNIQUE NOT NULL: no second row with the number, deleted or not
BoxNumberTaken(bx, n) == \E i \in DOMAIN bx : bx[i].box_number = n

\* name TEXT UNIQUE NOT NULL (binary collation: the exact text)
CategoryNameTaken(cats, name) == \E c \in DOMAIN cats : cats[c].name = name

\* SELECT box_number FROM boxes [WHERE is_deleted = 0]
used_numbers(v, bx) ==
    IF v = "soft"
    THEN {bx[i].box_number : i \in {j \in DOMAIN bx : ~bx[j].is_deleted}}
    ELSE {bx[i].box_number : i \in DOMAIN bx}

\* next_number = 1; while next_number in used_numbers: next_number += 1
RECURSIVE first_gap(_, _)
first_gap(next_number, used) ==
    IF next_number \in used THEN first_gap(next_number + 1, used) ELSE next_number

SetMax(S) == IF S = {} THEN 0 ELSE CHOOSE m \in S : \A x \in S : x <= m

\* returning current_max instead of the gap found
get_next_box_number_current_max(v, bx) == SetMax(used_numbers(v, bx))

\* counting on from the highest number, never filling a gap
get_next_box_number_after_max(v, bx) == SetMax(used_numbers(v, bx)) + 1

get_next_box_number(v, bx) == first_gap(1, used_numbers(v, bx))

\* SELECT 1 FROM boxes WHERE box_number = ? [AND is_deleted = 0]
existing(v, bx, n) ==
    IF v = "soft"
    THEN \E i \in DOMAIN bx : bx[i].box_number = n /\ ~bx[i].is_deleted
    ELSE \E i \in DOMAIN bx : bx[i].box_number = n

\* SELECT * FROM categories WHERE name = ? AND is_active = 1
get_category_by_name(cats, name) ==
    {c \in DOMAIN cats : cats[c].name = name /\ cats[c].is_active}

\* the name column of the category a box row points to (LEFT JOIN: "" when none)
JoinedName(cats, cid) == IF cid \in DOMAIN cats THEN cats[cid].name ELSE ""

\* the query without "AND NOT b.is_deleted"
get_box_any(v, bx, cats, id) ==
    IF id \in DOMAIN bx
    THEN [found |-> TRUE, box_number |-> bx[id].box_number, priority |-> bx[id].priority,
          category_id |-> bx[id].category_id,
          category_name |-> IF v = "soft" THEN JoinedName(cats, bx[id].category_id)
                            ELSE bx[id].category,
          box_size |-> bx[id].box_size, description |-> bx[id].description]
    ELSE NoBox

\* get_box: the row as the variant's query returns it, NoBox for None
get_box(v, bx, cats, id) ==
    IF id \in DOMAIN bx /\ (v = "hard" \/ ~bx[id].is_deleted)
    THEN [found |-> TRUE, box_number |-> bx[id].box_number, priority |-> bx[id].priority,
          category_id |-> bx[id].category_id,
          category_name |-> IF v = "soft" THEN JoinedName(cats, bx[id].category_id)
                            ELSE bx[id].category,
          box_size |-> bx[id].box_size, description |-> bx[id].description]
    ELSE NoBox

\* the count that finds no box
count_boxes_using_category_none(v, bx, cid) == 0

\* SELECT COUNT(*) FROM boxes WHERE category_id = ? [AND is_deleted = 0]
count_boxes_using_category(v, bx, cid) ==
    Cardinality({i \in DOMAIN bx : bx[i].category_id = cid /\ (v = "hard" \/ ~bx[i].is_deleted)})

HistoryOf(h, id) == SelectSeq(h, LAMBDA e : e.box_id = id)

\* The timestamp column of row k of the log. Rows are written one after the
\* other, so row k is written at time k. datetime.now() is the local wall
\* clock with microseconds, SQLite's datetime('now') is UTC cut to the second;
\* the soft create_box writes the latter, every other INSERT the former.
timestamp(v, h, k, offset) ==
    IF v = "soft" /\ h[k].action = "create"
    THEN 2 * k
    ELSE 2 * (k + offset) + 1

\* ORDER BY timestamp DESC over the row numbers S of one box
RECURSIVE by_timestamp_desc(_, _, _, _)
by_timestamp_desc(v, h, S, offset) ==
    IF S = {} THEN <<>>
    ELSE LET k == CHOOSE x \in S :
                     \A y \in S : timestamp(v, h, y, offset) <= timestamp(v, h, x, offset)
         IN <<k>> \o by_timestamp_desc(v, h, S \ {k}, offset)

\* SELECT * FROM box_history WHERE box_id = ? ORDER BY timestamp DESC
\* (the result as row numbers of the log)
get_box_history(v, h, id, offset) ==
    by_timestamp_desc(v, h, {k \in 1..Len(h) : h[k].box_id = id}, offset)

(***************************************************************************)
(* Listing: get_boxes.                                                     *)
(***************************************************************************)

\* the characters of the texts used as descriptions and search terms
Chars(text) ==
    CASE text = "Test box" -> <<"T", "e", "s", "t", " ", "b", "o", "x">>
      [] text = "Updated test box" ->
            <<"U", "p", "d", "a", "t", "e", "d", " ", "t", "e", "s", "t", " ", "b", "o", "x">>
      [] text = "test" -> <<"t", "e", "s", "t">>
      [] text = "Updated" -> <<"U", "p", "d", "a", "t", "e", "d">>
      [] OTHER -> <<>>

\* LIKE folds the case of ASCII letters
LowerChar(c) ==
    CASE c = "T" -> "t"
      [] c = "U" -> "u"
      [] OTHER -> c

\* text LIKE pattern: % matches any run of characters, _ any one character
RECURSIVE like(_, _)
like(pattern, text) ==
    IF pattern = <<>> THEN text = <<>>
    ELSE IF Head(pattern) = "%"
         THEN like(Tail(pattern), text) \/ (text # <<>> /\ like(pattern, Tail(text)))
    ELSE /\ text # <<>>
         /\ (Head(pattern) = "_" \/ LowerChar(Head(pattern)) = LowerChar(Head(text)))
         /\ like(Tail(pattern), Tail(text))

\* b.description LIKE ? with the parameter f'%{description}%'
description_like(description, term) ==
    like(<<"%">> \o Chars(term) \o <<"%">>, Chars(description))

\* str(category).isdigit()
isdigit(category) == category \in {"1", "2", "3"}

ToInt(category) ==
    CASE category = "1" -> 1 [] category = "2" -> 2 [] category = "3" -> 3 [] OTHER -> 0

\* the WHERE clause get_boxes builds
get_boxes_where(v, bx, cats, i, f) ==
    /\ v = "soft" => ~bx[i].is_deleted
    /\ f.box_number # 0 => bx[i].box_number = f.box_number
    /\ f.priority # "" => bx[i].priority = f.priority
    /\ f.category # "" =>
          IF v = "hard" /\ isdigit(f.category)
          THEN bx[i].category_id = ToInt(f.category)
          ELSE bx[i].category_id \in DOMAIN cats
               /\ cats[bx[i].category_id].name = f.category
    /\ f.box_size # "" => bx[i].box_size = f.box_size
    /\ f.description # "" => description_like(bx[i].description, f.description)

\* ORDER BY b.box_number over the row ids S
RECURSIVE order_by_box_number(_, _)
order_by_box_number(bx, S) ==
    IF S = {} THEN <<>>
    ELSE LET i == CHOOSE x \in S : \A y \in S : bx[x].box_number <= bx[y].box_number
         IN <<i>> \o order_by_box_number(bx, S \ {i})

\* limit=None of the hard get_boxes
NoLimit == -1

\* LIMIT ? OFFSET ?
limit_offset(rows, limit, skip) ==
    IF limit = NoLimit THEN rows
    ELSE SubSeq(rows, skip + 1, IF skip + limit < Len(rows) THEN skip + limit ELSE Len(rows))

\* get_boxes: the ids of the rows returned, in order
get_boxes(v, bx, cats, f, limit, skip) ==
    limit_offset(order_by_box_number(bx, {i \in DOMAIN bx : get_boxes_where(v, bx, cats, i, f)}),
                 limit, skip)

\* the defaults of get_boxes: hard limit=None, skip=None; soft skip=0, limit=20
DefaultLimit == 20

get_boxes_default_limit(v) == IF v = "soft" THEN DefaultLimit ELSE NoLimit

(***************************************************************************)
(* Exports: export.py.                                                     *)
(***************************************************************************)
ExportFormats == {"csv", "json", "markdown", "pdf"}

\* the conditions get_boxes_for_export joins with AND
export_where(bx, i, f) ==
    /\ ~bx[i].is_deleted
    /\ f.priority # "" => bx[i].priority = f.priority
    /\ f.category # "" => bx[i].category = f.category
    /\ f.search_term # "" => description_like(bx[i].description, f.search_term)

\* SELECT * FROM boxes WHERE ... ORDER BY box_number. With a search term the
\* WHERE clause names the column 'notes', which no boxes table has: the
\* statement raises sqlite3.OperationalError.
get_boxes_for_export(bx, f) ==
    IF f.search_term # ""
    THEN [raised |-> TRUE, rows |-> <<>>]
    ELSE [raised |-> FALSE,
          rows |-> order_by_box_number(bx, {i \in DOMAIN bx : export_where(bx, i, f)})]

\* the rows are sqlite3.Row objects (row_factory of every connection), which
\* have keys() and indexing but no get()
RowHasGet == FALSE

\* the boxes a format's loop writes: csv and json convert each row with
\* dict(box); markdown and pdf call box.get(...), which raises AttributeError
\* on the first row
written(fmt, rows) ==
    IF fmt \in {"csv", "json"} \/ RowHasGet
    THEN [raised |-> FALSE, rows |-> rows]
    ELSE [raised |-> TRUE, rows |-> <<>>]

\* export_to_csv, export_to_json, export_to_markdown, export_to_pdf: the
\* returned success flag and the boxes written to the file
export_to(fmt, bx, f, REPORTLAB_AVAILABLE) ==
    LET fetched == get_boxes_for_export(bx, f)
        out == written(fmt, fetched.rows)
    IN IF fmt = "pdf" /\ ~REPORTLAB_AVAILABLE THEN [success |-> FALSE, boxes |-> <<>>]
       ELSE IF fetched.raised THEN [success |-> FALSE, boxes |-> <<>>]
       ELSE IF fetched.rows = <<>> THEN [success |-> FALSE, boxes |-> <<>>]
       ELSE IF out.raised THEN [success |-> FALSE, boxes |-> <<>>]
       ELSE [success |-> TRUE, boxes |-> out.rows]

(***************************************************************************)
(* JSON: export_to_json writes each row with json.dump, a reader gets the  *)
(* records back with json.load. Texts are sequences of characters; the     *)
(* character U+00E9 stands for the non-ASCII ones.                         *)
(***************************************************************************)
MaxTextLen == 2
MaxJsonBoxes == 2

JsonAlphabet == {"a", "\"", "\\", "\n", "U+00E9"}

JsonTexts == UNION {[1..n -> JsonAlphabet] : n \in 0..MaxTextLen}

JsonFail == [ok |-> FALSE, value |-> <<>>]

\* json.dump leaves the characters of a string as they are
escape_none(c) == <<c>>

\* json.dump (ensure_ascii=True): the escape of one character of a string
escape(c) ==
    CASE c = "\"" -> <<"\\", "\"">>
      [] c = "\\" -> <<"\\", "\\">>
      [] c = "\n" -> <<"\\", "n">>
      [] c = "U+00E9" -> <<"\\", "u", "0", "0", "e", "9">>
      [] OTHER -> <<c>>

RECURSIVE escaped(_)
escaped(text) == IF text = <<>> THEN <<>> ELSE escape(Head(text)) \o escaped(Tail(text))

\* json.dump of a str
json_dumps_str(text) == <<"\"">> \o escaped(text) \o <<"\"">>

Digit(d) ==
    CASE d = 0 -> "0" [] d = 1 -> "1" [] d = 2 -> "2" [] d = 3 -> "3" [] d = 4 -> "4"
      [] d = 5 -> "5" [] d = 6 -> "6" [] d = 7 -> "7" [] d = 8 -> "8" [] d = 9 -> "9"

\* json.dump of a non-negative int
RECURSIVE json_dumps_int(_)
json_dumps_int(n) ==
    IF n < 10 THEN <<Digit(n)>> ELSE json_dumps_int(n \div 10) \o <<Digit(n % 10)>>

\* json.load scanning a string after its opening quote: up to the closing
\* quote, undoing the escapes; a raw control character is an error
RECURSIVE scanstring(_, _)
scanstring(s, acc) ==
    IF s = <<>> THEN [ok |-> FALSE, value |-> <<>>, rest |-> <<>>]
    ELSE IF Head(s) = "\"" THEN [ok |-> TRUE, value |-> acc, rest |-> Tail(s)]
    ELSE IF Head(s) = "\n" THEN [ok |-> FALSE, value |-> <<>>, rest |-> <<>>]
    ELSE IF Head(s) # "\\" THEN scanstring(Tail(s), Append(acc, Head(s)))
    ELSE IF Len(s) < 2 THEN [ok |-> FALSE, value |-> <<>>, rest |-> <<>>]
    ELSE IF s[2] \in {"\"", "\\"} THEN scanstring(SubSeq(s, 3, Len(s)), Append(acc, s[2]))
    ELSE IF s[2] = "n" THEN scanstring(SubSeq(s, 3, Len(s)), Append(acc, "\n"))
    ELSE IF s[2] = "u" /\ Len(s) >= 6 /\ SubSeq(s, 3, 6) = <<"0", "0", "e", "9">>
         THEN scanstring(SubSeq(s, 7, Len(s)), Append(acc, "U+00E9"))
    ELSE [ok |-> FALSE, value |-> <<>>, rest |-> <<>>]

\* json.load of a str
json_loads_str(s) ==
    IF s = <<>> \/ Head(s) # "\"" THEN JsonFail
    ELSE LET r == scanstring(Tail(s), <<>>)
         IN IF r.ok /\ r.rest = <<>> THEN [ok |-> TRUE, value |-> r.value] ELSE JsonFail

DigitValue(c) == CHOOSE d \in 0..9 : Digit(d) = c

\* json.load of an int
RECURSIVE json_loads_int(_)
json_loads_int(s) ==
    IF Len(s) = 1 THEN DigitValue(s[1])
    ELSE 10 * json_loads_int(SubSeq(s, 1, Len(s) - 1)) + DigitValue(s[Len(s)])

\* dict(box) written by json.dump
json_dumps_box(box) ==
    [box_number |-> json_dumps_int(box.box_number),
     priority |-> json_dumps_str(box.priority),
     category |-> json_dumps_str(box.category),
     box_size |-> json_dumps_str(box.box_size),
     description |-> json_dumps_str(box.description)]

\* the file export_to_json writes for the rows it fetched
json_file(bx, rows) ==
    [box_count |-> json_dumps_int(Len(rows)),
     boxes |-> [k \in 1..Len(rows) |-> json_dumps_box(bx[rows[k]])]]

\* json.load of one exported record
json_loads_box(rec) ==
    [box_number |-> json_loads_int(rec.box_number),
     priority |-> json_loads_str(rec.priority),
     category |-> json_loads_str(rec.category),
     box_size |-> json_loads_str(rec.box_size),
     description |-> json_loads_str(rec.description)]

(***************************************************************************)
(* Initial state: the database init_db leaves behind.                      *)
(***************************************************************************)
Init ==
    /\ variant \in Variants
    /\ boxes = <<>>
    /\ box_history = <<>>
    /\ categories = IF variant = "hard"
                    THEN (1 :> [name |-> "General", is_active |-> TRUE])
                    ELSE <<>>
    /\ nextBoxId = 1
    /\ nextCatId = IF variant = "hard" THEN 2 ELSE 1
    /\ pc = [p \in Procs |-> "idle"]
    /\ req = [p \in Procs |-> NoReq]
    /\ last = NoCall
    /\ nreq = 0
    /\ BackupIdle
    /\ RentalIdle

\* a call returns: its slot is free again
Return(p, call) ==
    /\ pc' = [pc EXCEPT ![p] = "idle"]
    /\ req' = [req EXCEPT ![p] = NoReq]
    /\ last' = call

Goto(p, label, r) ==
    /\ pc' = [pc EXCEPT ![p] = label]
    /\ req' = [req EXCEPT ![p] = r]
    /\ last' = last

CallOf(r, status) ==
    [NoCall EXCEPT !.op = r.op, !.status = status, !.box_id = r.box_id,
                   !.created = r.created]

(***************************************************************************)
(* create_box                                                              *)
(***************************************************************************)

\* the call: hard create_box(priority, category_id, ..., box_number=None),
\* soft create_box(priority, category_name, ...)
BeginCreate(p, budget) ==
    /\ pc[p] = "idle"
    /\ nreq < budget
    /\ nextBoxId <= MaxBoxId
    /\ nreq' = nreq + 1
    /\ \/ /\ variant = "hard"
          /\ \E cid \in 1..MaxCatId, n \in {NoNumber} \cup 1..MaxBoxNumber :
                Goto(p, "create_number",
                     [NoReq EXCEPT !.op = "create", !.cat_id = cid, !.box_number = n])
       \/ /\ variant = "soft"
          /\ \E name \in CategoryNames :
                Goto(p, "create_number", [NoReq EXCEPT !.op = "create", !.cat_name = name])
    /\ UNCHANGED <<variant, backup, rental, db>>

\* if box_number is None: box_number = get_next_box_number()
CreateNumber(p) ==
    /\ pc[p] = "create_number"
    /\ LET n == IF req[p].box_number = NoNumber
                THEN get_next_box_number(variant, boxes)
                ELSE req[p].box_number
       IN Goto(p, IF variant = "soft" THEN "cat_lookup" ELSE "create_check",
               [req[p] EXCEPT !.box_number = n])
    /\ UNCHANGED <<variant, backup, rental, db, nreq>>

\* soft: category = get_category_by_name(category_name)
CategoryLookup(p) ==
    /\ pc[p] = "cat_lookup"
    /\ LET found == get_category_by_name(categories, req[p].cat_name)
       IN IF found # {}
          THEN Goto(p, IF req[p].op = "create" THEN "create_check" ELSE "update_write",
                    [req[p] EXCEPT !.cat_id = CHOOSE c \in found : TRUE])
          ELSE Goto(p, "cat_insert", req[p])
    /\ UNCHANGED <<variant, backup, rental, db, nreq>>

\* soft: category_id = create_category(category_name), which commits;
\* IntegrityError -> None -> raise ValueError("Could not create category")
CategoryInsert(p) ==
    /\ pc[p] = "cat_insert"
    /\ IF CategoryNameTaken(categories, req[p].cat_name)
       THEN /\ Return(p, CallOf(req[p], "ValueError"))
            /\ UNCHANGED <<variant, backup, rental, db, nreq>>
       ELSE /\ nextCatId <= MaxCatId
            /\ categories' = (nextCatId :> [name |-> req[p].cat_name, is_active |-> TRUE])
                             @@ categories
            /\ nextCatId' = nextCatId + 1
            /\ Goto(p, IF req[p].op = "create" THEN "create_check" ELSE "update_write",
                    [req[p] EXCEPT !.cat_id = nextCatId, !.created = nextCatId])
            /\ UNCHANGED <<variant, backup, rental, boxes, box_history, nextBoxId, nreq>>

\* "Double-check the box number isn't in use": raise ValueError
CreateCheck(p) ==
    /\ pc[p] = "create_check"
    /\ IF existing(variant, boxes, req[p].box_number)
       THEN Return(p, CallOf(req[p], "ValueError"))
       ELSE Goto(p, IF variant = "soft" THEN "create_insert" ELSE "create_category", req[p])
    /\ UNCHANGED <<variant, backup, rental, db, nreq>>

\* hard: SELECT name FROM categories WHERE id = ?; raise ValueError("Invalid category ID")
CreateCategoryName(p) ==
    /\ pc[p] = "create_category"
    /\ IF req[p].cat_id \in DOMAIN categories
       THEN Goto(p, "create_insert",
                 [req[p] EXCEPT !.cat_name = categories[req[p].cat_id].name])
       ELSE Return(p, CallOf(req[p], "ValueError"))
    /\ UNCHANGED <<variant, backup, rental, db, nreq>>

\* the row inserted with a number one below the one checked
NewBoxOffByOne(v, r, priority, box_size, description) ==
    [box_number |-> IF r.box_number > 1 THEN r.box_number - 1 ELSE r.box_number,
     priority |-> priority, category_id |-> r.cat_id,
     category |-> IF v = "hard" THEN r.cat_name ELSE "",
     box_size |-> box_size, description |-> description, is_deleted |-> FALSE]

\* the row create_box inserts
NewBox(v, r, priority, box_size, description) ==
    [box_number |-> r.box_number, priority |-> priority, category_id |-> r.cat_id,
     category |-> IF v = "hard" THEN r.cat_name ELSE "",
     box_size |-> box_size, description |-> description, is_deleted |-> FALSE]

\* the row written with a fixed editor instead of the caller's
HistoryRowFixedEditor(id, action, number, editor) ==
    [box_id |-> id, action |-> action, number |-> number, editor |-> "system"]

\* the box_history row of an action
HistoryRow(id, action, number, editor) ==
    [box_id |-> id, action |-> action, number |-> number, editor |-> editor]

\* INSERT INTO boxes; INSERT INTO box_history; commit at the end of "with db"
\* (IntegrityError on the UNIQUE box_number: rolled back and raised)
CreateInsert(p) ==
    /\ pc[p] = "create_insert"
    /\ IF BoxNumberTaken(boxes, req[p].box_number)
       THEN /\ Return(p, CallOf(req[p], "IntegrityError"))
            /\ UNCHANGED <<variant, backup, rental, db, nreq>>
       ELSE /\ nextBoxId <= MaxBoxId
            /\ Len(box_history) < MaxHistory
            /\ \E priority \in Priorities, box_size \in Sizes,
                  description \in Descriptions, editor \in {FormEditor} :
                  /\ boxes' = (nextBoxId :> NewBox(variant, req[p], priority, box_size,
                                                   description)) @@ boxes
                  /\ box_history' = Append(box_history,
                        HistoryRow(nextBoxId, "create", req[p].box_number, editor))
                  /\ Return(p, [CallOf(req[p], "ok") EXCEPT
                                  !.box_id = nextBoxId, !.priority = priority,
                                  !.box_size = box_size, !.description = description,
                                  !.editor = editor])
            /\ nextBoxId' = nextBoxId + 1
            /\ UNCHANGED <<variant, backup, rental, categories, nextCatId, nreq>>

Create(p, budget) ==
    \/ BeginCreate(p, budget)
    \/ CreateNumber(p)
    \/ CategoryLookup(p)
    \/ CategoryInsert(p)
    \/ CreateCheck(p)
    \/ CreateCategoryName(p)
    \/ CreateInsert(p)

(***************************************************************************)
(* update_box                                                              *)
(***************************************************************************)

\* the call: hard update_box(box_id, priority, category_id, category, ...) with the
\* category name edit_box_form looked up for the id, soft update_box(box_id,
\* priority, category_name, ...)
BeginUpdate(p, budget) ==
    /\ pc[p] = "idle"
    /\ nreq < budget
    /\ nreq' = nreq + 1
    /\ \E id \in 1..MaxBoxId :
          \/ /\ variant = "hard"
             /\ \E cid \in DOMAIN categories :
                   Goto(p, "update_get",
                        [NoReq EXCEPT !.op = "update", !.box_id = id, !.cat_id = cid,
                                      !.cat_name = categories[cid].name])
          \/ /\ variant = "soft"
             /\ \E name \in CategoryNames :
                   Goto(p, "update_get",
                        [NoReq EXCEPT !.op = "update", !.box_id = id, !.cat_name = name])
    /\ UNCHANGED <<variant, backup, rental, db>>

\* box = get_box(box_id); if not box: return None
UpdateGet(p) ==
    /\ pc[p] = "update_get"
    /\ LET box == get_box(variant, boxes, categories, req[p].box_id)
       IN IF box.found
          THEN Goto(p, IF variant = "soft" THEN "cat_lookup" ELSE "update_write",
                    [req[p] EXCEPT !.box = box])
          ELSE Return(p, CallOf(req[p], "None"))
    /\ UNCHANGED <<variant, backup, rental, db, nreq>>

\* the changes list: one label per tracked field that differs from the row read
Changes(v, box, priority, cat_id, cat_name, box_size, description) ==
    (IF box.priority # priority THEN {"Priority"} ELSE {})
    \cup (IF (IF v = "hard" THEN box.category_id # cat_id ELSE box.category_name # cat_name)
          THEN {"Category"} ELSE {})
    \cup (IF box.box_size # box_size THEN {"Size"} ELSE {})
    \cup (IF box.description # description THEN {"Description"} ELSE {})

\* the UPDATE that sets category_id but not the category text
UpdatedBoxKeepsText(v, row, r, priority, box_size, description) ==
    [row EXCEPT !.priority = priority, !.category_id = r.cat_id,
                !.box_size = box_size, !.description = description]

\* UPDATE boxes SET ... WHERE id = ?
UpdatedBox(v, row, r, priority, box_size, description) ==
    [row EXCEPT !.priority = priority, !.category_id = r.cat_id,
                !.category = IF v = "hard" THEN r.cat_name ELSE row.category,
                !.box_size = box_size, !.description = description]

\* UPDATE boxes; if changes: INSERT INTO box_history; db.commit()
UpdateWrite(p) ==
    /\ pc[p] = "update_write"
    /\ \E priority \in Priorities, box_size \in Sizes,
          description \in Descriptions, editor \in {FormEditor} :
          LET id == req[p].box_id
              changes == Changes(variant, req[p].box, priority, req[p].cat_id,
                                 req[p].cat_name, box_size, description)
          IN /\ changes # {} => Len(box_history) < MaxHistory
             /\ boxes' = IF id \in DOMAIN boxes
                         THEN [boxes EXCEPT ![id] = UpdatedBox(variant, boxes[id], req[p],
                                                               priority, box_size, description)]
                         ELSE boxes
             /\ box_history' = IF changes # {}
                               THEN Append(box_history,
                                           HistoryRow(id, "update", req[p].box.box_number, editor))
                               ELSE box_history
             /\ Return(p, [CallOf(req[p], "ok") EXCEPT
                             !.priority = priority, !.box_size = box_size,
                             !.description = description, !.editor = editor])
    /\ UNCHANGED <<variant, backup, rental, categories, nextBoxId, nextCatId, nreq>>

Update(p, budget) ==
    \/ BeginUpdate(p, budget)
    \/ UpdateGet(p)
    \/ UpdateWrite(p)

(***************************************************************************)
(* delete_box                                                              *)
(***************************************************************************)

BeginDelete(p, budget) ==
    /\ pc[p] = "idle"
    /\ nreq < budget
    /\ nreq' = nreq + 1
    /\ \E id \in 1..MaxBoxId :
          Goto(p, "delete_get", [NoReq EXCEPT !.op = "delete", !.box_id = id])
    /\ UNCHANGED <<variant, backup, rental, db>>

\* box = get_box(box_id); if not box: return False
DeleteGet(p) ==
    /\ pc[p] = "delete_get"
    /\ LET box == get_box(variant, boxes, categories, req[p].box_id)
       IN IF box.found
          THEN Goto(p, "delete_write", [req[p] EXCEPT !.box = box])
          ELSE Return(p, CallOf(req[p], "False"))
    /\ UNCHANGED <<variant, backup, rental, db, nreq>>

\* the hard delete without DELETE FROM box_history
HardDeleteKeepsHistory(bx, h, id) ==
    [b |-> [i \in DOMAIN bx \ {id} |-> bx[i]],
     h |-> h]

\* hard: DELETE FROM box_history WHERE box_id = ?; DELETE FROM boxes WHERE id = ?
HardDelete(bx, h, id) ==
    [b |-> [i \in DOMAIN bx \ {id} |-> bx[i]],
     h |-> SelectSeq(h, LAMBDA e : e.box_id # id)]

\* the soft delete that also clears the box's history, as the hard delete does
SoftDeleteClearsHistory(bx, h, id, number, editor) ==
    [b |-> IF id \in DOMAIN bx THEN [bx EXCEPT ![id].is_deleted = TRUE] ELSE bx,
     h |-> Append(SelectSeq(h, LAMBDA e : e.box_id # id),
                  HistoryRow(id, "delete", number, editor))]

\* the soft delete that overwrites the newest history row instead of adding one
SoftDeleteOverwritesEntry(bx, h, id, number, editor) ==
    [b |-> IF id \in DOMAIN bx THEN [bx EXCEPT ![id].is_deleted = TRUE] ELSE bx,
     h |-> Append(SubSeq(h, 1, Len(h) - 1), HistoryRow(id, "delete", number, editor))]

\* soft: UPDATE boxes SET is_deleted = 1; INSERT INTO box_history (.., 'delete', ..)
SoftDelete(bx, h, id, number, editor) ==
    [b |-> IF id \in DOMAIN bx THEN [bx EXCEPT ![id].is_deleted = TRUE] ELSE bx,
     h |-> Append(h, HistoryRow(id, "delete", number, editor))]

DeleteWrite(p) ==
    /\ pc[p] = "delete_write"
    /\ variant = "soft" => Len(box_history) < MaxHistory
    /\ \E editor \in Editors :
          LET id == req[p].box_id
              after == IF variant = "hard"
                       THEN HardDelete(boxes, box_history, id)
                       ELSE SoftDelete(boxes, box_history, id, req[p].box.box_number, editor)
          IN /\ boxes' = after.b
             /\ box_history' = after.h
             /\ Return(p, [CallOf(req[p], "True") EXCEPT !.editor = editor])
    /\ UNCHANGED <<variant, backup, rental, categories, nextBoxId, nextCatId, nreq>>

Delete(p, budget) ==
    \/ BeginDelete(p, budget)
    \/ DeleteGet(p)
    \/ DeleteWrite(p)

(***************************************************************************)
(* categories                                                              *)
(***************************************************************************)

\* COLLATE NOCASE folds the ASCII letters
Lower(name) ==
    CASE name = "Kitchen" -> "kitchen"
      [] name = "General" -> "general"
      [] OTHER -> name

\* POST /api/categories. hard: refused when a name equal ignoring case exists;
\* soft: create_category, refused by the UNIQUE name
AddCategory(p, budget) ==
    /\ pc[p] = "idle"
    /\ nreq < budget
    /\ nreq' = nreq + 1
    /\ \E name \in CategoryNames :
          LET dup == IF variant = "hard"
                     THEN \E c \in DOMAIN categories : Lower(categories[c].name) = Lower(name)
                     ELSE CategoryNameTaken(categories, name)
              call == [NoCall EXCEPT !.op = "add_category", !.name = name]
          IN IF dup
             THEN /\ last' = [call EXCEPT !.status = "False"]
                  /\ UNCHANGED <<categories, nextCatId>>
             ELSE /\ nextCatId <= MaxCatId
                  /\ categories' = (nextCatId :> [name |-> name, is_active |-> TRUE])
                                   @@ categories
                  /\ nextCatId' = nextCatId + 1
                  /\ last' = [call EXCEPT !.status = "True", !.created = nextCatId]
    /\ UNCHANGED <<variant, backup, rental, boxes, box_history, nextBoxId, pc, req>>

BeginDeleteCategory(p, budget) ==
    /\ pc[p] = "idle"
    /\ nreq < budget
    /\ nreq' = nreq + 1
    /\ \E cid \in 1..MaxCatId :
          Goto(p, "delcat_count", [NoReq EXCEPT !.op = "delete_category", !.cat_id = cid])
    /\ UNCHANGED <<variant, backup, rental, db>>

\* box_count = count_boxes_using_category(category_id); if box_count > 0: return False
DeleteCategoryCount(p) ==
    /\ pc[p] = "delcat_count"
    /\ IF count_boxes_using_category(variant, boxes, req[p].cat_id) > 0
       THEN Return(p, [CallOf(req[p], "False") EXCEPT !.cat_id = req[p].cat_id])
       ELSE Goto(p, "delcat_write", req[p])
    /\ UNCHANGED <<variant, backup, rental, db, nreq>>

\* hard: DELETE FROM categories WHERE id = ?; soft: UPDATE categories SET is_active = 0
RemoveCategory(v, cats, cid) ==
    IF cid \notin DOMAIN cats THEN cats
    ELSE IF v = "hard" THEN [c \in DOMAIN cats \ {cid} |-> cats[c]]
    ELSE [cats EXCEPT ![cid].is_active = FALSE]

DeleteCategoryWrite(p) ==
    /\ pc[p] = "delcat_write"
    /\ categories' = RemoveCategory(variant, categories, req[p].cat_id)
    /\ Return(p, [CallOf(req[p], "True") EXCEPT
                     !.cat_id = req[p].cat_id,
                     !.name = JoinedName(categories, req[p].cat_id)])
    /\ UNCHANGED <<variant, backup, rental, boxes, box_history, nextBoxId, nextCatId, nreq>>

\* new_name.strip()
Strip(name) ==
    CASE name = "  " -> ""
      [] name = " Kitchen " -> "Kitchen"
      [] OTHER -> name

\* hard: edit_category(category_id, new_name)
BeginEditCategory(p, budget) ==
    /\ pc[p] = "idle"
    /\ nreq < budget
    /\ variant = "hard"
    /\ nreq' = nreq + 1
    /\ \E cid \in 1..MaxCatId, new_name \in RawNames :
          Goto(p, "editcat_check",
               [NoReq EXCEPT !.op = "edit_category", !.cat_id = cid, !.cat_name = new_name])
    /\ UNCHANGED <<variant, backup, rental, db>>

EditCategoryReturn(p, status) ==
    Return(p, [CallOf(req[p], status) EXCEPT !.cat_id = req[p].cat_id,
                                            !.name = Strip(req[p].cat_name)])

\* the duplicate check that compares the exact text only
EditCategoryDuplicateExact(cats, cid, new_name) ==
    \E c \in DOMAIN cats \ {cid} : cats[c].name = new_name

\* SELECT id FROM categories WHERE name COLLATE NOCASE = ? AND id != ?
EditCategoryDuplicate(cats, cid, new_name) ==
    \E c \in DOMAIN cats \ {cid} : Lower(cats[c].name) = Lower(new_name)

\* if not new_name or not new_name.strip(): return False; the duplicate check
EditCategoryCheck(p) ==
    /\ pc[p] = "editcat_check"
    /\ IF Strip(req[p].cat_name) = ""
          \/ EditCategoryDuplicate(categories, req[p].cat_id, Strip(req[p].cat_name))
       THEN EditCategoryReturn(p, "False")
       ELSE Goto(p, "editcat_old", req[p])
    /\ UNCHANGED <<variant, backup, rental, db, nreq>>

\* old_category = SELECT name FROM categories WHERE id = ?; not found: return False
EditCategoryOld(p) ==
    /\ pc[p] = "editcat_old"
    /\ IF req[p].cat_id \in DOMAIN categories
       THEN Goto(p, "editcat_write", req[p])
       ELSE EditCategoryReturn(p, "False")
    /\ UNCHANGED <<variant, backup, rental, db, nreq>>

\* the rename that leaves the boxes' category text alone
RenamedBoxesStale(bx, cid, new_name) == bx

\* UPDATE boxes SET category = ? WHERE category_id = ?
RenamedBoxes(bx, cid, new_name) ==
    [i \in DOMAIN bx |->
        IF bx[i].category_id = cid THEN [bx[i] EXCEPT !.category = new_name] ELSE bx[i]]

\* UPDATE categories SET name = ?; UPDATE boxes SET category = ?; db.commit()
\* (the UNIQUE name refusing the first UPDATE: except branch, return False)
EditCategoryWrite(p) ==
    /\ pc[p] = "editcat_write"
    /\ LET cid == req[p].cat_id
           new_name == Strip(req[p].cat_name)
       IN IF \E c \in DOMAIN categories \ {cid} : categories[c].name = new_name
          THEN /\ EditCategoryReturn(p, "False")
               /\ UNCHANGED <<categories, boxes>>
          ELSE /\ categories' = IF cid \in DOMAIN categories
                                THEN [categories EXCEPT ![cid].name = new_name]
                                ELSE categories
               /\ boxes' = RenamedBoxes(boxes, cid, new_name)
               /\ EditCategoryReturn(p, "True")
    /\ UNCHANGED <<variant, backup, rental, box_history, nextBoxId, nextCatId, nreq>>

Category(p, budget) ==
    \/ AddCategory(p, budget)
    \/ BeginDeleteCategory(p, budget)
    \/ DeleteCategoryCount(p)
    \/ DeleteCategoryWrite(p)
    \/ BeginEditCategory(p, budget)
    \/ EditCategoryCheck(p)
    \/ EditCategoryOld(p)
    \/ EditCategoryWrite(p)

(***************************************************************************)
(* Specifications.                                                         *)
(***************************************************************************)
Request(p, budget) ==
    Create(p, budget) \/ Update(p, budget) \/ Delete(p, budget) \/ Category(p, budget)

\* one request at a time, each run to completion before the next starts
Next == Request(1, MaxRequests)

Spec == Init /\ [][Next]_vars

\* requests of several connections, interleaved statement by statement
ConcNext == \E p \in Procs : Request(p, MaxConcRequests)

ConcSpec == Init /\ [][ConcNext]_vars

(***************************************************************************)
(* POST /create: create_box_form                                           *)
(***************************************************************************)

\* box_number_to_use: the submitted number, replaced by the next available
\* one if it lies below it
box_number_to_use(submitted_box_number, next_available) ==
    IF submitted_box_number # next_available /\ submitted_box_number < next_available
    THEN next_available
    ELSE submitted_box_number

\* the handler up to its call of create_box: hard passes category_id and
\* box_number=box_number_to_use, soft passes category_name and no number
BeginCreateForm(p, budget) ==
    /\ pc[p] = "idle"
    /\ nreq < budget
    /\ nextBoxId <= MaxBoxId
    /\ nreq' = nreq + 1
    /\ \E submitted_box_number \in 0..MaxBoxNumber :
          LET next_available == get_next_box_number(variant, boxes)
              form == [NoReq EXCEPT !.op = "create", !.form = TRUE,
                                    !.submitted = submitted_box_number]
          IN \/ /\ variant = "hard"
                /\ \E cid \in DOMAIN categories :
                      Goto(p, "create_number",
                           [form EXCEPT !.cat_id = cid,
                                        !.box_number = box_number_to_use(submitted_box_number,
                                                                         next_available)])
             \/ /\ variant = "soft"
                /\ \E name \in CategoryNames :
                      Goto(p, "create_number", [form EXCEPT !.cat_name = name])
    /\ UNCHANGED <<variant, backup, rental, db>>

FormNext ==
    \/ BeginCreateForm(1, MaxRequests)
    \/ CreateNumber(1)
    \/ CategoryLookup(1)
    \/ CategoryInsert(1)
    \/ CreateCheck(1)
    \/ CreateCategoryName(1)
    \/ CreateInsert(1)
    \/ Delete(1, MaxRequests)

FormSpec == Init /\ [][FormNext]_vars

(***************************************************************************)
(* The listing and the exports read a populated store. ListInit draws one: *)
(* n boxes created one after the other over two categories, in the hard    *)
(* variant possibly with the explicit numbers n..1, in the soft variant    *)
(* with some of the first boxes soft-deleted since.                        *)
(***************************************************************************)
ListCategories(v) ==
    IF v = "hard"
    THEN (1 :> [name |-> "General", is_active |-> TRUE])
         @@ (2 :> [name |-> "Kitchen", is_active |-> TRUE])
    ELSE (1 :> [name |-> "Kitchen", is_active |-> TRUE])
         @@ (2 :> [name |-> "kitchen", is_active |-> TRUE])

ListRow(v, n, i, gone, reversed) ==
    [box_number |-> IF reversed THEN n + 1 - i ELSE i,
     priority |-> IF i % 2 = 1 THEN "Priority 1" ELSE "Priority 2",
     category_id |-> IF i % 3 = 0 THEN 2 ELSE 1,
     category |-> IF v = "hard" THEN ListCategories(v)[IF i % 3 = 0 THEN 2 ELSE 1].name ELSE "",
     box_size |-> IF i % 4 < 2 THEN "Medium" ELSE "Large",
     description |-> IF i % 2 = 0 THEN "Updated test box" ELSE "Test box",
     is_deleted |-> i \in gone]

ListInit ==
    /\ variant \in Variants
    /\ categories = ListCategories(variant)
    /\ nextCatId = 3
    /\ \E n \in 0..MaxListBoxes, gone \in SUBSET (1..2), reversed \in BOOLEAN :
          /\ gone \subseteq 1..n
          /\ variant = "hard" => gone = {}
          /\ variant = "soft" => ~reversed
          /\ boxes = [i \in 1..n |-> ListRow(variant, n, i, gone, reversed)]
          /\ box_history =
                [k \in 1..n |-> HistoryRow(k, "create", IF reversed THEN n + 1 - k ELSE k,
                                           FormEditor)]
                \o [k \in 1..Cardinality(gone) |->
                       HistoryRow(IF k = 1 /\ 1 \in gone THEN 1 ELSE 2, "delete",
                                  IF k = 1 /\ 1 \in gone THEN 1 ELSE 2, FormEditor)]
          /\ nextBoxId = n + 1
    /\ pc = [p \in Procs |-> "idle"]
    /\ req = [p \in Procs |-> NoReq]
    /\ last = NoCall
    /\ nreq = 0
    /\ BackupIdle
    /\ RentalIdle

ListFilters ==
    [box_number : {0, 2}, priority : {"", "Priority 1"}, category : {"", "Kitchen", "2"},
     box_size : {"", "Medium"}, description : {"", "test", "Updated"}]

\* GET /api/boxes: get_boxes(box_number=..., priority=..., category=...,
\* box_size=..., description=...) with the default limit and skip
ApiListBoxes ==
    /\ \E f \in ListFilters :
          last' = [NoCall EXCEPT
                     !.op = "get_boxes", !.status = "ok",
                     !.box_number = f.box_number, !.priority = f.priority,
                     !.name = f.category, !.box_size = f.box_size,
                     !.description = f.description,
                     !.result = get_boxes(variant, boxes, categories, f,
                                          get_boxes_default_limit(variant), 0)]
    /\ UNCHANGED <<variant, backup, rental, db, pc, req, nreq>>

ExportFilters ==
    [search_term : {"", "test"}, category : {"", "Kitchen"}, priority : {"", "Priority 1"}]

\* export_to_<fmt>(db, search_term=..., category=..., priority=...)
Export ==
    /\ \E fmt \in ExportFormats, f \in ExportFilters, REPORTLAB_AVAILABLE \in BOOLEAN :
          LET r == export_to(fmt, boxes, f, REPORTLAB_AVAILABLE)
          IN last' = [NoCall EXCEPT
                        !.op = "export", !.editor = fmt,
                        !.status = IF r.success THEN "True" ELSE "False",
                        !.description = f.search_term, !.name = f.category,
                        !.priority = f.priority, !.result = r.boxes]
    /\ UNCHANGED <<variant, backup, rental, db, pc, req, nreq>>

ListNext == ApiListBoxes \/ Export

ListSpec == ListInit /\ [][ListNext]_vars

(***************************************************************************)
(* The JSON export of a store whose texts hold quotes, backslashes, line   *)
(* breaks and non-ASCII characters.                                        *)
(***************************************************************************)
NoExportFilter == [search_term |-> "", category |-> "", priority |-> ""]

JsonRow(n, text, category, gone) ==
    [box_number |-> n, priority |-> <<"a">>, category_id |-> 1, category |-> category,
     box_size |-> <<"a", "a">>, description |-> text, is_deleted |-> gone]

JsonInit ==
    /\ variant \in Variants
    /\ categories = ListCategories(variant)
    /\ nextCatId = 3
    /\ \E n \in 1..MaxJsonBoxes, text \in JsonTexts, category \in {<<"a">>, <<"\"", "a">>},
          first \in {1, 12}, gone \in BOOLEAN :
          /\ variant = "hard" => ~gone
          /\ boxes = [i \in 1..n |->
                        IF i = 1 THEN JsonRow(first, text, category, gone)
                        ELSE JsonRow(first + 95 * (i - 1), <<"a">>, category, FALSE)]
          /\ box_history = [k \in 1..n |-> HistoryRow(k, "create", boxes[k].box_number,
                                                      FormEditor)]
          /\ nextBoxId = n + 1
    /\ pc = [p \in Procs |-> "idle"]
    /\ req = [p \in Procs |-> NoReq]
    /\ last = NoCall
    /\ nreq = 0
    /\ BackupIdle
    /\ RentalIdle

\* export_to_json(db): the rows fetched, the file written
ExportToJson ==
    /\ LET r == export_to("json", boxes, NoExportFilter, TRUE)
       IN last' = [NoCall EXCEPT
                     !.op = "export_to_json",
                     !.status = IF r.success THEN "True" ELSE "False",
                     !.result = IF r.success THEN json_file(boxes, r.boxes)
                                ELSE [box_count |-> <<>>, boxes |-> <<>>]]
    /\ UNCHANGED <<variant, backup, rental, db, pc, req, nreq>>

JsonNext == ExportToJson

JsonSpec == JsonInit /\ [][JsonNext]_vars

(***************************************************************************)
(* Backups: backup.py ("module") and the backup functions of the           *)
(* application file ("app", the same text in both application files).      *)
(* A backup call runs from start to end without another in between.        *)
(***************************************************************************)
MaxClock == 3
MaxBackupOps == 3
MaxOldBackups == 2

BackupImpls == {"module", "app"}

\* load_config: a missing file is created from the defaults, which record
\* no backup
load_config(cfg) == [cfg EXCEPT !.exists = TRUE]

\* load_backup_config: a missing file is created from the defaults, whose
\* "last_backup" is the time of loading
load_backup_config(cfg, t) ==
    IF cfg.exists THEN cfg ELSE [cfg EXCEPT !.exists = TRUE, !.last_backup = t]

\* the file a copy writes: shutil.copy2 keeps the modification time of the
\* database file; a file of the same name is overwritten
copy2(files, name) ==
    {f \in files : f.name # name} \cup {[name |-> name, mtime |-> db_file.mtime]}

\* a rotation that removes the newest files
newest(files, n) ==
    {D \in SUBSET files :
        /\ Cardinality(D) = n
        /\ \A d \in D, r \in files \ D : d.mtime >= r.mtime}

\* the first n files of the list sorted by modification time, oldest first;
\* files with one modification time come in the order of os.listdir, which
\* is arbitrary
oldest(files, n) ==
    {D \in SUBSET files :
        /\ Cardinality(D) = n
        /\ \A d \in D, r \in files \ D : d.mtime <= r.mtime}

\* rotate_backups: the sets of files it may remove
rotate_backups(files, max_backups) ==
    IF max_backups <= 0 THEN {{}}
    ELSE IF Cardinality(files) > max_backups
         THEN oldest(files, Cardinality(files) - max_backups)
    ELSE {{}}

\* the pruning of run_simple_backup: the list sorted newest first, everything
\* from index max_backups on is removed
prune(files, max_backups) ==
    IF Cardinality(files) > max_backups
    THEN oldest(files, Cardinality(files) - max_backups)
    ELSE {{}}

\* create_backup(custom_name): the directory and the task status it can
\* leave. The status is 'completed' only if os.path.getsize finds the new
\* file after the rotation.
create_backup(prefix) ==
    IF ~db_file.exists
    THEN {[dir |-> backup_dir,
           call |-> [NoBackupCall EXCEPT !.op = "create_backup", !.status = "failed"]]}
    ELSE LET name == [prefix |-> prefix, stamp |-> now]
             copied == copy2(backup_dir, name)
         IN {[dir |-> copied \ D,
              call |-> [op |-> "create_backup",
                        status |-> IF \E f \in D : f.name = name
                                   THEN "failed" ELSE "completed",
                        triggered |-> FALSE, copied |-> TRUE, name |-> name,
                        deleted |-> D]] :
                D \in rotate_backups(copied, config.max_backups)}

\* run_simple_backup: the directory, the configuration and the result it can
\* leave
run_simple_backup ==
    LET cfg == load_backup_config(config, now)
    IN IF ~db_file.exists
       THEN {[dir |-> backup_dir, cfg |-> cfg,
              call |-> [NoBackupCall EXCEPT !.op = "run_simple_backup", !.status = "False"]]}
       ELSE LET name == [prefix |-> "database_backup", stamp |-> now]
                copied == copy2(backup_dir, name)
            IN {[dir |-> copied \ D,
                 cfg |-> [cfg EXCEPT !.last_backup = now],
                 call |-> [op |-> "run_simple_backup", status |-> "True",
                           triggered |-> FALSE, copied |-> TRUE, name |-> name,
                           deleted |-> D]] :
                   D \in prune(copied, cfg.max_backups)}

BackupCall(impl) ==
    /\ backup_impl = impl
    /\ nbackup < MaxBackupOps
    /\ nbackup' = nbackup + 1
    /\ UNCHANGED <<variant, db, pc, req, last, nreq, rental, backup_impl, now, db_file>>

\* time passes
Tick ==
    /\ now < MaxClock
    /\ now' = now + 1
    /\ UNCHANGED <<variant, db, pc, req, last, nreq, rental,
                   backup_impl, backup_dir, db_file, config, backup_last, nbackup>>

\* a request commits a change to the database file
WriteDb ==
    /\ db_file # [exists |-> TRUE, mtime |-> now]
    /\ db_file' = [exists |-> TRUE, mtime |-> now]
    /\ UNCHANGED <<variant, db, pc, req, last, nreq, rental,
                   backup_impl, backup_dir, now, config, backup_last, nbackup>>

\* backup.create_backup(custom_name)
CreateBackup ==
    /\ BackupCall("module")
    /\ \E prefix \in {"backup", "auto"} :
          \E o \in create_backup(prefix) :
             /\ backup_dir' = o.dir
             /\ backup_last' = o.call
    /\ config' = load_config(config)

\* backup.rotate_backups()
RotateBackups ==
    /\ BackupCall("module")
    /\ \E D \in rotate_backups(backup_dir, config.max_backups) :
          /\ backup_dir' = backup_dir \ D
          /\ backup_last' = [NoBackupCall EXCEPT !.op = "rotate_backups", !.status = "ok",
                                                 !.deleted = D]
    /\ config' = load_config(config)

\* interval reached: now_ts - last_check >= interval
due_reached(elapsed, interval) == elapsed >= interval

\* backup.check_auto_backup()
CheckAutoBackup ==
    /\ BackupCall("module")
    /\ LET cfg == load_config(config)
           run_backup == /\ cfg.interval > 0
                         /\ \/ cfg.last_backup = None
                            \/ due_reached(now - cfg.last_backup, cfg.interval)
       IN IF ~run_backup
          THEN /\ backup_last' = [NoBackupCall EXCEPT !.op = "check_auto_backup",
                                                      !.status = "skipped"]
               /\ backup_dir' = backup_dir
               /\ config' = cfg
          ELSE \E o \in create_backup("auto") :
                  /\ backup_dir' = o.dir
                  /\ backup_last' = [o.call EXCEPT !.op = "check_auto_backup",
                                                   !.triggered = TRUE]
                  /\ config' = IF o.call.status = "completed"
                               THEN [cfg EXCEPT !.last_backup = now]
                               ELSE cfg

\* run_simple_backup(): POST /backup/run and the scheduled job
RunSimpleBackup ==
    /\ BackupCall("app")
    /\ \E o \in run_simple_backup :
          /\ backup_dir' = o.dir
          /\ backup_last' = o.call
          /\ config' = o.cfg

\* check_auto_backup() of the application file, run when it starts
AppCheckAutoBackup ==
    /\ BackupCall("app")
    /\ LET cfg == load_backup_config(config, now)
           backup_needed == /\ cfg.auto_backup
                            /\ \/ cfg.last_backup = None
                               \/ now - cfg.last_backup > cfg.interval
       IN IF ~backup_needed
          THEN /\ backup_last' = [NoBackupCall EXCEPT !.op = "check_auto_backup",
                                                      !.status = "skipped"]
               /\ backup_dir' = backup_dir
               /\ config' = cfg
          ELSE \E o \in run_simple_backup :
                  /\ backup_dir' = o.dir
                  /\ backup_last' = [o.call EXCEPT !.op = "check_auto_backup",
                                                   !.triggered = TRUE]
                  /\ config' = o.cfg

\* backups found in the directory when the program starts
OldBackups(impl, n) ==
    {[name |-> [prefix |-> IF impl = "app" THEN "database_backup" ELSE "backup",
                stamp |-> 0 - k],
      mtime |-> 0] : k \in 1..n}

BackupInit ==
    /\ variant = "hard"
    /\ boxes = <<>>
    /\ box_history = <<>>
    /\ categories = (1 :> [name |-> "General", is_active |-> TRUE])
    /\ nextBoxId = 1
    /\ nextCatId = 2
    /\ pc = [p \in Procs |-> "idle"]
    /\ req = [p \in Procs |-> NoReq]
    /\ last = NoCall
    /\ nreq = 0
    /\ backup_impl \in BackupImpls
    /\ \E n \in 0..MaxOldBackups : backup_dir = OldBackups(backup_impl, n)
    /\ now = 0
    /\ \E e \in BOOLEAN : db_file = [exists |-> e, mtime |-> 0]
    /\ \E e \in BOOLEAN, last_backup \in {None, 0}, interval \in {0, 2},
          auto_backup \in BOOLEAN, max_backups \in 0..MaxOldBackups :
          /\ ~e => last_backup = None
          /\ backup_impl = "module" => auto_backup
          /\ config = [exists |-> e, last_backup |-> last_backup, interval |-> interval,
                       auto_backup |-> auto_backup, max_backups |-> max_backups]
    /\ backup_last = NoBackupCall
    /\ nbackup = 0
    /\ RentalIdle

BackupNext ==
    \/ Tick
    \/ WriteDb
    \/ CreateBackup
    \/ RotateBackups
    \/ CheckAutoBackup
    \/ RunSimpleBackup
    \/ AppCheckAutoBackup

BackupSpec == BackupInit /\ [][BackupNext]_vars

(***************************************************************************)
(* The rental-property application, src/app.py: the table properties, the  *)
(* schema set-up that runs at every application start, and POST /add.      *)
(***************************************************************************)
MaxProperties == 2

\* the columns of CREATE TABLE properties
PropertyColumns ==
    {"id", "property_type", "address", "source_url", "price", "sq_ft", "cat_friendly",
     "num_bedrooms", "air_conditioning", "parking_type", "commute_morning",
     "commute_midday", "commute_evening", "main_image", "image_1", "image_2", "image_3",
     "image_4", "image_5", "map_image"}

\* the columns init_db adds to a table of an earlier version
AddedColumns ==
    {"source_url", "main_image", "image_1", "image_2", "image_3", "image_4", "image_5",
     "map_image"}

\* PRAGMA table_info(properties): the column names, none for a missing table
table_info(t) == IF t.exists THEN t.columns ELSE {}

\* CREATE TABLE IF NOT EXISTS properties
create_table_if_not_exists(t) ==
    IF t.exists THEN t ELSE [exists |-> TRUE, columns |-> PropertyColumns, rows |-> <<>>]

\* ALTER TABLE properties ADD COLUMN c, for every c of cols: the rows hold NULL there
add_columns(t, cols) ==
    [exists  |-> TRUE,
     columns |-> t.columns \cup cols,
     rows    |-> [i \in DOMAIN t.rows |->
                     [c \in t.columns \cup cols |->
                         IF c \in t.columns THEN t.rows[i][c] ELSE NULL]]]

\* the SELECT list of INSERT INTO properties SELECT ... FROM temp_properties:
\* NULL in the place of source_url and of the seven image columns
select_list(row, c) == IF c \in AddedColumns THEN NULL ELSE row[c]

\* CREATE TABLE temp_properties AS SELECT *, DROP TABLE properties, CREATE TABLE
\* properties, INSERT INTO properties SELECT ..., DROP TABLE temp_properties
rebuild(t) ==
    [exists  |-> TRUE,
     columns |-> PropertyColumns,
     rows    |-> [i \in DOMAIN t.rows |-> [c \in PropertyColumns |-> select_list(t.rows[i], c)]]]

\* init_db: the table it leaves and whether it returns.  The column list is read
\* before CREATE TABLE IF NOT EXISTS, so for a missing table every ALTER TABLE is
\* attempted on the complete table just created, and the first one raises
\* OperationalError (duplicate column name) outside the try block.
init_db(t) ==
    LET columns == table_info(t)
        created == create_table_if_not_exists(t)
        missing == AddedColumns \ columns
    IN  IF missing \cap created.columns # {}
        THEN [table |-> created, status |-> "OperationalError"]
        ELSE [table |-> rebuild(add_columns(created, missing)), status |-> "ok"]

\* the application starts: init_db runs at module level
InitDb ==
    /\ properties' = init_db(properties).table
    /\ rental_last' = [op |-> "init_db", status |-> init_db(properties).status]
    /\ UNCHANGED <<variant, db, pc, req, last, nreq, backup>>

\* POST /add, on a running application: one INSERT with the nineteen form fields
AddProperty ==
    /\ rental_last.status = "ok"
    /\ Len(properties.rows) < MaxProperties
    /\ \E property_type \in {"Apartment", "House"},
          source_url \in {NULL, "https://example.com/listing"},
          main_image \in {NULL, "uploads/property_images/main.jpg"},
          gallery \in {{}, {1}, 1..5},
          map_image \in {NULL, "uploads/map_images/map.png"} :
          LET id == Len(properties.rows) + 1
              image(i) == IF i \in gallery THEN "uploads/property_images/gallery.jpg"
                          ELSE NULL
              row == [id |-> id, property_type |-> property_type,
                      address |-> "1 Main St", source_url |-> source_url,
                      price |-> 1500, sq_ft |-> 800, cat_friendly |-> 1,
                      num_bedrooms |-> 2, air_conditioning |-> 0,
                      parking_type |-> "Garage", commute_morning |-> "20 min",
                      commute_midday |-> "15 min", commute_evening |-> "25 min",
                      main_image |-> main_image, image_1 |-> image(1),
                      image_2 |-> image(2), image_3 |-> image(3), image_4 |-> image(4),
                      image_5 |-> image(5), map_image |-> map_image]
          IN  properties' = [properties EXCEPT !.rows = Append(@, row)]
    /\ rental_last' = [op |-> "add_property", status |-> "ok"]
    /\ UNCHANGED <<variant, db, pc, req, last, nreq, backup>>

\* a table of an earlier version of the application: one row, without the columns
\* of missing
OldTable(missing) ==
    [exists  |-> TRUE,
     columns |-> PropertyColumns \ missing,
     rows    |-> << [c \in PropertyColumns \ missing |->
                        CASE c = "id" -> 1
                          [] c = "price" -> 1200
                          [] c \in {"sq_ft", "cat_friendly", "num_bedrooms",
                                    "air_conditioning"} -> 1
                          [] c = "main_image" -> "uploads/property_images/old.jpg"
                          [] OTHER -> "old"] >>]

RentalInit ==
    /\ variant = "hard"
    /\ boxes = <<>>
    /\ box_history = <<>>
    /\ categories = (1 :> [name |-> "General", is_active |-> TRUE])
    /\ nextBoxId = 1
    /\ nextCatId = 2
    /\ pc = [p \in Procs |-> "idle"]
    /\ req = [p \in Procs |-> NoReq]
    /\ last = NoCall
    /\ nreq = 0
    /\ BackupIdle
    /\ properties \in {NoTable, OldTable(AddedColumns),
                       OldTable(AddedColumns \ {"main_image"})}
    /\ rental_last = [op |-> "", status |-> ""]

RentalNext == InitDb \/ AddProperty

RentalSpec == RentalInit /\ [][RentalNext]_vars

(***************************************************************************)
(* Properties.                                                             *)
(***************************************************************************)
LiveBoxes == {i \in DOMAIN boxes : ~boxes[i].is_deleted}
DeletedBoxes == {i \in DOMAIN boxes : boxes[i].is_deleted}
LiveNumbers == {boxes[i].box_number : i \in LiveBoxes}
DeletedNumbers == {boxes[i].box_number : i \in DeletedBoxes}
UniqueLiveNumbers ==
    \A i, j \in LiveBoxes : i # j => boxes[i].box_number # boxes[j].box_number

\* C1: whatever boxes were created and deleted, the number get_next_box_number
\* returns is not the box_number of a non-deleted box.
C1_NextNumberUnused == get_next_box_number(variant, boxes) \notin LiveNumbers

\* a box was deleted and boxes remain, so the used numbers are not simply 1..k
C1_Witness ==
    /\ last.op = "delete" /\ last.status = "True"
    /\ LiveNumbers # {}
    /\ get_next_box_number(variant, boxes) < SetMax(LiveNumbers)

C3_UniqueBoxNumbers ==
    \A i \in DOMAIN boxes : \A j \in DOMAIN boxes :
        (i # j /\ ~boxes[i].is_deleted /\ ~boxes[j].is_deleted)
            => boxes[i].box_number # boxes[j].box_number

\* two boxes are stored, the second by a create that succeeded
C3_Witness ==
    /\ Cardinality(LiveBoxes) = 2
    /\ last.op = "create" /\ last.status = "ok"

C4_InsertStep ==
    \A p \in Procs :
        (pc[p] = "create_insert" /\ pc'[p] = "idle"
         /\ existing(variant, boxes, req[p].box_number))
            => /\ last'.status = "IntegrityError"
               /\ boxes' = boxes
               /\ box_history' = box_history

\* C4: when creates interleave and reach the INSERT with the same number, the
\* later INSERT raises and stores nothing, and no state has two non-deleted
\* boxes with one box_number.
C4_CollisionRaises == [](UniqueLiveNumbers) /\ [][C4_InsertStep]_vars

\* a create passed its check, then lost the race: its INSERT collided with a
\* non-deleted box
C4_Witness ==
    /\ last.op = "create" /\ last.status = "IntegrityError"
    /\ DeletedBoxes = {}
    /\ nextBoxId = 2

\* C5: in the soft-delete variant get_next_box_number never returns the number
\* of a soft-deleted box (after creating 1 and 2 and deleting 1 it is 3).
C5_SoftDeletedNumberNotReused ==
    variant = "soft" => get_next_box_number(variant, boxes) \notin DeletedNumbers

EntriesOf(id, action) ==
    {k \in 1..Len(box_history) :
        box_history[k].box_id = id /\ box_history[k].action = action}

\* a step in which the call of slot p returns
Returns(p, op) == req[p].op = op /\ pc[p] # "idle" /\ pc'[p] = "idle"

\* the last row of box_history' is new, and the rows before it are box_history
AppendedOne(id, action) ==
    /\ Len(box_history') = Len(box_history) + 1
    /\ SubSeq(box_history', 1, Len(box_history)) = box_history
    /\ box_history'[Len(box_history')].box_id = id
    /\ box_history'[Len(box_history')].action = action

\* the category text a box row shows
StoredCategory(id) ==
    IF variant = "hard" THEN boxes[id].category
    ELSE JoinedName(categories, boxes[id].category_id)

C6_BoxHasItsCreateEntry ==
    /\ \A i \in DOMAIN boxes : Cardinality(EntriesOf(i, "create")) = 1
    /\ \A k \in 1..Len(box_history) :
          box_history[k].action = "create" => box_history[k].box_id \in DOMAIN boxes

C6_CreateStep ==
    \A p \in Procs :
        (Returns(p, "create") /\ last'.status = "ok") =>
            LET id == last'.box_id
            IN /\ id \notin DOMAIN boxes
               /\ DOMAIN boxes' = DOMAIN boxes \cup {id}
               /\ \A i \in DOMAIN boxes : boxes'[i] = boxes[i]
               /\ ~boxes'[id].is_deleted
               /\ boxes'[id].priority = last'.priority
               /\ boxes'[id].box_size = last'.box_size
               /\ boxes'[id].description = last'.description
               /\ IF variant = "hard"
                  THEN boxes'[id].category_id = req[p].cat_id
                  ELSE JoinedName(categories', boxes'[id].category_id) = req[p].cat_name
               /\ AppendedOne(id, "create")
               /\ box_history'[Len(box_history')].editor = last'.editor
               /\ last'.editor = FormEditor

\* C6: a successful create_box stores exactly one new non-deleted box with the
\* given priority, category, size and description and exactly one 'create'
\* box_history row for it with the given editor, both in one commit: every
\* stored box has its one 'create' row and every 'create' row its box.
C6_CreateStoresBoxAndHistory == [](C6_BoxHasItsCreateEntry) /\ [][C6_CreateStep]_vars

\* a second box was just created next to an earlier one that was updated since
C6_Witness ==
    /\ last.op = "create" /\ last.status = "ok"
    /\ Cardinality(DOMAIN boxes) = 2
    /\ Len(box_history) >= 3

\* C7: a create_box that raises leaves the tables as they were: no category
\* row created on demand during the failed call persists.
C7_FailedCreateLeavesNothing ==
    (last.op = "create" /\ last.status \in {"ValueError", "IntegrityError"})
        => last.created \notin DOMAIN categories

\* C8: update_box on an existing box appends exactly one 'update' entry if
\* priority, category, box size or description differs from the stored value,
\* and no entry if all are equal.
C8_HistoryIffChanged ==
    [][\A p \in Procs :
          (Returns(p, "update") /\ req[p].box.found /\ req[p].box_id \in DOMAIN boxes) =>
              LET id == req[p].box_id
                  differs ==
                      \/ StoredCategory(id) # req[p].cat_name
                      \/ /\ last'.status = "ok"
                         /\ \/ boxes[id].priority # last'.priority
                            \/ boxes[id].box_size # last'.box_size
                            \/ boxes[id].description # last'.description
              IN IF differs THEN AppendedOne(id, "update")
                 ELSE box_history' = box_history]_vars

\* a box is missing for get_box: no row, or (soft) a row with is_deleted set
Missing(id) == id \notin DOMAIN boxes \/ boxes[id].is_deleted

\* C9: update_box and delete_box on a missing box change nothing, hence the
\* history of a box has at most one 'delete' entry and no entry after it.
C9_DeleteEntryIsLast ==
    \A i \in DOMAIN boxes :
        LET h == HistoryOf(box_history, i)
        IN \A k \in 1..Len(h) : h[k].action = "delete" => k = Len(h)

\* the part of C9 about one call: update_box and delete_box that find the box
\* id missing return None / False and change no box, history or category row
C9_MissingBoxFails ==
    [][\A p \in Procs :
          (pc[p] \in {"update_get", "delete_get"} /\ pc'[p] # pc[p]
           /\ Missing(req[p].box_id)) =>
              /\ pc'[p] = "idle"
              /\ last'.op = req[p].op
              /\ last'.status = (IF req[p].op = "update" THEN "None" ELSE "False")
              /\ UNCHANGED db]_vars

\* delete_box was called on a box that is already soft-deleted
C9_Witness ==
    /\ last.op = "delete" /\ last.status = "False"
    /\ last.box_id \in DeletedBoxes

\* C10: the soft delete_box of a live box sets is_deleted, keeps the row and
\* its earlier history, appends exactly one 'delete' entry with the given
\* editor, and get_box no longer returns the box.
C10_SoftDelete ==
    [][\A p \in Procs :
          (variant = "soft" /\ Returns(p, "delete") /\ last'.status = "True") =>
              LET id == req[p].box_id
              IN /\ id \in DOMAIN boxes
                 /\ boxes' = [boxes EXCEPT ![id].is_deleted = TRUE]
                 /\ AppendedOne(id, "delete")
                 /\ box_history'[Len(box_history')].editor = last'.editor
                 /\ ~get_box(variant, boxes', categories', id).found]_vars

\* a box with a create and an update entry was soft-deleted by the API's editor
C10_Witness ==
    /\ variant = "soft"
    /\ last.op = "delete" /\ last.status = "True" /\ last.editor = "test_user"
    /\ \E i \in DeletedBoxes :
          /\ i = last.box_id
          /\ Len(HistoryOf(box_history, i)) = 3
          /\ HistoryOf(box_history, i)[3].action = "delete"

C13_RenameRejected ==
    [][\A p \in Procs :
          /\ (pc[p] = "editcat_check" /\ pc'[p] # pc[p]
               /\ \/ Strip(req[p].cat_name) = ""
                  \/ \E c \in DOMAIN categories \ {req[p].cat_id} :
                        Lower(categories[c].name) = Lower(Strip(req[p].cat_name)))
                 => (pc'[p] = "idle" /\ last'.op = "edit_category"
                     /\ last'.status = "False")
          /\ (Returns(p, "edit_category") /\ last'.status = "False")
                 => UNCHANGED db]_vars

\* a rename to another category's name in another case was refused
C13_Witness ==
    /\ last.op = "edit_category" /\ last.status = "False"
    /\ last.name = "kitchen"
    /\ last.cat_id \in DOMAIN categories
    /\ \E c \in DOMAIN categories \ {last.cat_id} : categories[c].name = "Kitchen"

\* the non-deleted boxes whose category_id is cid
BoxesUsing(cid) == {i \in LiveBoxes : boxes[i].category_id = cid}

\* C14: delete_category returns failure and changes nothing when a box
\* references the category; when none does it succeeds and the category row
\* is removed (hard) or deactivated (soft), nothing else changing.
C14_DeleteCategory ==
    [][\A p \in Procs :
          LET cid == req[p].cat_id
          IN /\ (pc[p] = "delcat_count" /\ pc'[p] # pc[p]) =>
                   IF BoxesUsing(cid) # {}
                   THEN /\ pc'[p] = "idle"
                        /\ last'.op = "delete_category" /\ last'.status = "False"
                        /\ UNCHANGED db
                   ELSE pc'[p] = "delcat_write" /\ UNCHANGED db
             /\ (pc[p] = "delcat_write" /\ pc'[p] # pc[p]) =>
                   /\ pc'[p] = "idle"
                   /\ last'.op = "delete_category" /\ last'.status = "True"
                   /\ DOMAIN categories' =
                         IF variant = "hard" THEN DOMAIN categories \ {cid}
                         ELSE DOMAIN categories
                   /\ \A c \in DOMAIN categories' :
                         IF c = cid
                         THEN categories'[c] = [categories[c] EXCEPT !.is_active = FALSE]
                         ELSE categories'[c] = categories[c]
                   /\ UNCHANGED <<boxes, box_history, nextBoxId, nextCatId>>]_vars

\* delete_category was refused for a category that a box uses
C14_Witness ==
    /\ last.op = "delete_category" /\ last.status = "False"
    /\ last.cat_id \in DOMAIN categories
    /\ categories[last.cat_id].is_active
    /\ BoxesUsing(last.cat_id) # {}

\* C15: no two categories have names that are equal ignoring case.
C15_NoCaseDuplicates ==
    \A c, d \in DOMAIN categories :
        c # d => Lower(categories[c].name) # Lower(categories[d].name)

\* the same for the hard variant alone
C15_HardNoCaseDuplicates == variant = "hard" => C15_NoCaseDuplicates

\* C16: with every request run to completion before the next starts, the
\* category text of every box equals the current name of the category its
\* category_id references (the hard variant stores the text).
C16_CategoryTextCurrent ==
    variant = "hard" =>
        \A i \in DOMAIN boxes :
            /\ boxes[i].category_id \in DOMAIN categories
            /\ boxes[i].category = categories[boxes[i].category_id].name

\* a box moved by an edit into a category that was renamed before
C16_Witness ==
    /\ variant = "hard"
    /\ last.op = "update" /\ last.status = "ok"
    /\ \E i \in DOMAIN boxes :
          /\ i = last.box_id
          /\ boxes[i].category_id = 1
          /\ boxes[i].category = "Kitchen"
          /\ \E k \in 1..Len(box_history) :
                box_history[k].box_id = i /\ box_history[k].action = "update"

\* box_history is a prefix of box_history'
HistoryKept ==
    /\ Len(box_history') >= Len(box_history)
    /\ SubSeq(box_history', 1, Len(box_history)) = box_history

\* C17: in the soft variant no step of create_box, update_box or delete_box
\* changes or removes a box_history row; a successful create and a successful
\* delete each add exactly one row, an update at most one, and nothing else
\* adds any.
C17_HistoryAppendOnly ==
    [][variant = "soft" =>
          /\ HistoryKept
          /\ Len(box_history') <= Len(box_history) + 1
          /\ \A p \in Procs :
                /\ (Returns(p, "create") /\ last'.status = "ok")
                      => AppendedOne(last'.box_id, "create")
                /\ (Returns(p, "delete") /\ last'.status = "True")
                      => AppendedOne(req[p].box_id, "delete")
                /\ (Returns(p, "update") /\ Len(box_history') > Len(box_history))
                      => AppendedOne(req[p].box_id, "update")
          /\ Len(box_history') > Len(box_history)
                => \E p \in Procs : pc[p] \in {"create_insert", "update_write",
                                                "delete_write"}]_vars

\* the log holds entries of two boxes, the newest one a delete
C17_Witness ==
    /\ variant = "soft"
    /\ last.op = "delete" /\ last.status = "True"
    /\ Len(box_history) = 4
    /\ Cardinality(DOMAIN boxes) = 2
    /\ \E k \in 1..3 : box_history[k].action = "update"

\* C18: get_box_history returns the entries of a box most recent first: its
\* first element is the entry the latest create, update or delete appended.
LatestEntryFirst(offset) ==
    \A id \in 1..MaxBoxId :
        LET rows == {k \in 1..Len(box_history) : box_history[k].box_id = id}
            result == get_box_history(variant, box_history, id, offset)
        IN rows # {} => result[1] = SetMax(rows)

\* C18: get_box_history returns the entries of a box most recent first: its
\* first element is the entry the latest create, update or delete appended,
\* whatever the server's time zone.
C18_LatestEntryFirst == \A offset \in TZOffsets : LatestEntryFirst(offset)

\* the same where all timestamps come from one clock (hard), or local time is
\* not behind UTC
C18_LatestEntryFirstOneClock ==
    \A offset \in TZOffsets :
        (variant = "hard" \/ offset >= 0) => LatestEntryFirst(offset)

\* text contains term, ignoring the case of letters
Contains(text, term) ==
    LET t == [k \in 1..Len(Chars(text)) |-> LowerChar(Chars(text)[k])]
        w == [k \in 1..Len(Chars(term)) |-> LowerChar(Chars(term)[k])]
    IN \E a \in 0..(Len(t) - Len(w)) : SubSeq(t, a + 1, a + Len(w)) = w

\* box i satisfies the filters the last listing was called with
Listed(i) ==
    /\ ~boxes[i].is_deleted
    /\ last.box_number # 0 => boxes[i].box_number = last.box_number
    /\ last.priority # "" => boxes[i].priority = last.priority
    /\ last.name # "" =>
          \/ JoinedName(categories, boxes[i].category_id) = last.name
          \/ variant = "hard" /\ isdigit(last.name)
              /\ boxes[i].category_id = ToInt(last.name)
    /\ last.box_size # "" => boxes[i].box_size = last.box_size
    /\ last.description # "" => Contains(boxes[i].description, last.description)

\* C19: the listing returns exactly the non-deleted boxes that satisfy every
\* supplied filter, each once, in ascending box_number order; all non-deleted
\* boxes when no filter is given.
C19_ListingExact ==
    last.op = "get_boxes" =>
        /\ {last.result[k] : k \in 1..Len(last.result)} = {i \in DOMAIN boxes : Listed(i)}
        /\ Len(last.result) = Cardinality({i \in DOMAIN boxes : Listed(i)})
        /\ \A k \in 1..(Len(last.result) - 1) :
              boxes[last.result[k]].box_number < boxes[last.result[k + 1]].box_number

\* the same where the default LIMIT does not cut the result
C19_ListingExactUpToLimit ==
    (variant = "hard" \/ Cardinality({i \in DOMAIN boxes : Listed(i)}) <= DefaultLimit)
        => C19_ListingExact

\* box i satisfies the filters the last export was called with
Exported(i) ==
    /\ ~boxes[i].is_deleted
    /\ last.priority # "" => boxes[i].priority = last.priority
    /\ last.name # "" => boxes[i].category = last.name
    /\ last.description # "" => Contains(boxes[i].description, last.description)

ExportExact ==
    /\ {last.result[k] : k \in 1..Len(last.result)} = {i \in DOMAIN boxes : Exported(i)}
    /\ Len(last.result) = Cardinality({i \in DOMAIN boxes : Exported(i)})
    /\ \A k \in 1..(Len(last.result) - 1) :
          boxes[last.result[k]].box_number < boxes[last.result[k + 1]].box_number

\* C20: for the same store and the same (search_term, category, priority) the
\* four export formats export the same boxes in the same order: exactly the
\* non-deleted boxes that satisfy every supplied filter, ascending by
\* box_number.
C20_ExportsAgree ==
    last.op = "export" =>
        /\ ExportExact
        /\ \A fmt \in ExportFormats :
              export_to(fmt, boxes,
                        [search_term |-> last.description, category |-> last.name,
                         priority |-> last.priority], TRUE).boxes = last.result

\* csv and json called without a search term export exactly those boxes
C20_CsvJsonExact ==
    (last.op = "export" /\ last.editor \in {"csv", "json"} /\ last.description = "")
        => ExportExact

\* markdown and pdf export no box, whatever the store holds
C20_MarkdownPdfEmpty ==
    (last.op = "export" /\ last.editor \in {"markdown", "pdf"})
        => last.status = "False" /\ last.result = <<>>

\* the non-deleted boxes in ascending box_number order
LiveInOrder == order_by_box_number(boxes, {i \in DOMAIN boxes : ~boxes[i].is_deleted})

BackupReturns(ops) == nbackup' = nbackup + 1 /\ backup_last'.op \in ops

\* the step ran a rotation or pruning
Rotated ==
    \/ BackupReturns({"rotate_backups"})
    \/ BackupReturns({"create_backup", "run_simple_backup", "check_auto_backup"})
          /\ backup_last'.copied

RotationKeeps ==
    (Rotated /\ config'.max_backups > 0) =>
        /\ Cardinality(backup_dir') <= config'.max_backups
        /\ \A d \in backup_last'.deleted, r \in backup_dir' : d.mtime <= r.mtime

Recorded(cfg) == IF cfg.exists THEN cfg.last_backup ELSE None

BackupSucceeded ==
    /\ BackupReturns({"create_backup", "run_simple_backup", "check_auto_backup"})
    /\ backup_last'.copied
    /\ backup_last'.status \in {"completed", "True"}

\* C23: the recorded last-backup timestamp changes only in a step whose backup
\* succeeded; a check that finds no backup due, and a failed backup, leave it
\* unchanged.
C23_TimestampOnSuccess ==
    [][Recorded(config') # Recorded(config) => BackupSucceeded]_vars

\* the same for backup.py, and for the application file once its
\* configuration file exists
C23_TimestampOnSuccessConfigured ==
    [][(backup_impl = "module" \/ config.exists) =>
          (Recorded(config') # Recorded(config) => BackupSucceeded)]_vars

C23_Witness ==
    /\ backup_impl = "module"
    /\ backup_last.op = "check_auto_backup"
    /\ backup_last.triggered
    /\ backup_last.status = "failed"
    /\ Recorded(config) = None

\* a backup is due: enabled, a positive interval, and no backup recorded or
\* the interval elapsed since the recorded one
Due ==
    /\ config.auto_backup
    /\ config.interval > 0
    /\ \/ Recorded(config) = None
       \/ now - Recorded(config) >= config.interval

AutoBackupWhenDue ==
    BackupReturns({"check_auto_backup"}) =>
        /\ backup_last'.triggered <=> Due
        /\ ~Due => backup_dir' = backup_dir

\* C24: check_auto_backup triggers a backup exactly when auto backup is
\* enabled with a positive interval and either no backup is recorded or the
\* interval has elapsed since the recorded one; otherwise it creates no file.
C24_AutoBackupWhenDue == [][AutoBackupWhenDue]_vars

\* backup.py's check_auto_backup does so
C24_ModuleAutoBackupWhenDue == [][backup_impl = "module" => AutoBackupWhenDue]_vars

\* the application's check does so when the configuration file exists and the
\* interval is positive and not exactly reached
C24_AppAutoBackupWhenDue ==
    [][(/\ backup_impl = "app"
        /\ config.exists
        /\ config.interval > 0
        /\ now - Recorded(config) # config.interval) => AutoBackupWhenDue]_vars

BackupAddsFile ==
    (/\ BackupReturns({"create_backup"})
     /\ backup_last'.status = "completed"
     /\ Cardinality(backup_dir) < config'.max_backups) =>
        /\ Cardinality(backup_dir') = Cardinality(backup_dir) + 1
        /\ \A f \in backup_dir : f.name # backup_last'.name

\* C25: every successful create_backup adds one new backup file distinct from
\* the existing ones, as long as the retention count is not exceeded.
C25_BackupAddsFile == [][BackupAddsFile]_vars

\* it does when no backup with the same prefix was made in the same second
C25_BackupAddsFileNewSecond ==
    [][(\A f \in backup_dir : f.name # [prefix |-> backup_last'.name.prefix, stamp |-> now])
          => BackupAddsFile]_vars

NewBackupKept ==
    (/\ backup_impl = "module"
     /\ BackupReturns({"create_backup", "check_auto_backup"})
     /\ backup_last'.copied) =>
        /\ backup_last'.status = "completed"
        /\ \E f \in backup_dir' : f.name = backup_last'.name

\* C27: whenever the copy of a create_backup call succeeds, the rotation of
\* that call does not remove the new file: the status on return is
\* 'completed' and the file exists.
C27_NewBackupKept == [][NewBackupKept]_vars

\* it holds when the database file was modified after every other backup in
\* the directory was taken
C27_NewBackupKeptAfterWrite ==
    [][(\A f \in backup_dir : f.mtime < db_file.mtime) => NewBackupKept]_vars

\* C26: a create form submitted with a box number that a box already holds
\* creates the box with the next available number instead; the request does not
\* fail.
C26_TakenNumberReplaced ==
    [][\A p \in Procs :
          (Returns(p, "create") /\ req[p].form /\ req[p].submitted \in LiveNumbers) =>
              /\ last'.status = "ok"
              /\ boxes'[last'.box_id].box_number = get_next_box_number(variant, boxes)]_vars

\* hard variant: a taken number below the next available one is replaced
C26_TakenNumberBelowReplaced ==
    [][\A p \in Procs :
          (/\ variant = "hard"
           /\ Returns(p, "create") /\ req[p].form /\ req[p].submitted \in LiveNumbers
           /\ req[p].submitted < get_next_box_number(variant, boxes)) =>
              /\ last'.status = "ok"
              /\ boxes'[last'.box_id].box_number = get_next_box_number(variant, boxes)]_vars

\* the category a box points to exists (hard) or is active (soft)
CategoryInUse(cid) ==
    /\ cid \in DOMAIN categories
    /\ variant = "soft" => categories[cid].is_active

\* C28: with requests interleaved in any way, every non-deleted box's
\* category_id refers to a category that exists (hard) or is active (soft).
C28_BoxCategoryExists == \A i \in LiveBoxes : CategoryInUse(boxes[i].category_id)

\* with one request at a time it does, after every completed request
C28_BoxCategoryExistsSequential ==
    (\A p \in Procs : pc[p] = "idle") => C28_BoxCategoryExists

\* the last completed request deleted the category called name
JustFreed(name) ==
    /\ last.op = "delete_category"
    /\ last.status = "True"
    /\ last.name = name

FreedNameUsable ==
    /\ \A name \in CategoryNames :
          (JustFreed(name) /\ last'.op = "add_category" /\ last'.name = name)
              => last'.status = "True"
    /\ \A p \in Procs :
          (JustFreed(req[p].cat_name) /\ pc[p] = "cat_insert") => pc'[p] # "idle"

\* C29: right after a successful delete_category, creating a category with
\* the freed name succeeds, and a create_box or update_box naming it gets its
\* category.
C29_FreedNameUsable == [][FreedNameUsable]_vars

\* the hard variant, which removes the row, allows it
C29_HardFreedNameUsable == [][variant = "hard" => FreedNameUsable]_vars

C29_HardWitness ==
    /\ variant = "hard"
    /\ last.op = "add_category" /\ last.status = "True"
    /\ last.created = 3
    /\ DOMAIN categories = {1, 3}

\* C30: init_db is idempotent on stored data: an application start on an existing
\* database leaves every property row with all of its field values unchanged,
\* source_url, main_image, image_1..image_5 and map_image included.
RowsKept(cols) ==
    /\ properties'.exists
    /\ Len(properties'.rows) = Len(properties.rows)
    /\ \A i \in DOMAIN properties.rows : \A c \in properties.columns \cap cols :
          properties'.rows[i][c] = properties.rows[i][c]

Restart == properties.exists /\ rental_last'.op = "init_db"

C30_InitDbKeepsRows == [][Restart => RowsKept(PropertyColumns)]_vars

\* what does hold: a start keeps the number of rows and, in each row, the twelve
\* columns the rebuild copies
C30_InitDbKeepsCopiedColumns == [][Restart => RowsKept(PropertyColumns \ AddedColumns)]_vars

\* and after every start that returns, source_url and the seven image columns of
\* every row are NULL
C30_InitDbErasesAdded ==
    (rental_last.op = "init_db" /\ rental_last.status = "ok")
        => \A i \in DOMAIN properties.rows : \A c \in AddedColumns :
              properties.rows[i][c] = NULL

====
